---- MODULE Spec2Model ----
(***************************************************************************)
(* A model of inventory_system.py: the module-level stock table, the       *)
(* operations that mutate and query it, the JSON persistence functions     *)
(* and the reference run of main().                                        *)
(*                                                                         *)
(* Python objects are tagged records, so that the dynamic type checks of   *)
(* the code (isinstance, arithmetic on loaded values) are decided by the   *)
(* model and not assumed:                                                  *)
(*   int   [t |-> "int",  i |-> n]        bool  [t |-> "bool", b |-> ..]    *)
(*   str   [t |-> "str",  s |-> chars]    float [t |-> "float"]             *)
(*   None  [t |-> "NoneType"]             list  [t |-> "list", l |-> seq]   *)
(*   dict  [t |-> "dict", d |-> seq of [k |-> chars, v |-> object]]         *)
(* A str is its sequence of characters; a dict keeps its entries in        *)
(* insertion order, as Python dicts do.                                    *)
(***************************************************************************)
EXTENDS Integers, Sequences, FiniteSets, TLC

VARIABLES stock_data, file, call, pre, pc

vars == <<stock_data, file, call, pre, pc>>

-----------------------------------------------------------------------------
(* Bounds of the model *)

\* largest quantity an entry reaches through the store operations
MaxQty == 3
\* characters per block of the persisted file: a write that fails leaves a
\* whole number of blocks
BlockSize == 16

-----------------------------------------------------------------------------
(* Python objects *)

PyInt(n) == [t |-> "int", i |-> n]
PyBool(b) == [t |-> "bool", b |-> b]
PyStr(s) == [t |-> "str", s |-> s]
PyFloat == [t |-> "float"]
PyNone == [t |-> "NoneType"]
PyList(l) == [t |-> "list", l |-> l]
PyDict(d) == [t |-> "dict", d |-> d]

\* isinstance(x, str)
IsStr(x) == x.t = "str"

\* isinstance(x, int): bool is a subclass of int
IsInt(x) == x.t \in {"int", "bool"}

\* the integer an int or bool object stands for in arithmetic and comparison
IntOf(x) == IF x.t = "bool" THEN (IF x.b THEN 1 ELSE 0) ELSE x.i

\* truth value of an object (`not item`, `if not stock_data`)
Truthy(x) ==
    CASE x.t = "str" -> Len(x.s) > 0
      [] x.t = "int" -> x.i # 0
      [] x.t = "bool" -> x.b
      [] x.t = "list" -> Len(x.l) > 0
      [] x.t = "dict" -> Len(x.d) > 0
      [] OTHER -> FALSE

\* item names used by main() and by the checks
apple == <<"a", "p", "p", "l", "e">>
banana == <<"b", "a", "n", "a", "n", "a">>
orange == <<"o", "r", "a", "n", "g", "e">>
pear == <<"p", "e", "a", "r">>
ten == <<"t", "e", "n">>

-----------------------------------------------------------------------------
(* dict operations, on the entry sequence of a dict *)

DictHas(d, k) == \E n \in 1..Len(d) : d[n].k = k

DictIdx(d, k) == CHOOSE n \in 1..Len(d) : d[n].k = k

\* d.get(k, default)
DictGet(d, k, default) == IF DictHas(d, k) THEN d[DictIdx(d, k)].v ELSE default

\* d[k] = v : an existing key keeps its place, a new key goes last
DictSet(d, k, v) ==
    IF DictHas(d, k)
    THEN [d EXCEPT ![DictIdx(d, k)] = [k |-> k, v |-> v]]
    ELSE Append(d, [k |-> k, v |-> v])

\* del d[k]
DictDel(d, k) == SelectSeq(d, LAMBDA e : e.k # k)

-----------------------------------------------------------------------------
(* The outcome of a call: the stock table after it, the exception that     *)
(* escaped it ("none" when it returned), its return value and the levels   *)
(* of the log records it emitted.                                          *)

Outcome(stock, exc, ret, log) ==
    [stock |-> stock, exc |-> exc, ret |-> ret, log |-> log]

\* a + b and a - b on objects: defined on int and bool operands only
\* (the model holds no float in the table)
IsNumber(x) == x.t \in {"int", "bool"}

\* what the guard clauses of add_item and remove_item log for a call they
\* reject, <<>> for a call they accept
ValidationLog(item, qty) ==
    IF ~IsStr(item) \/ ~Truthy(item) THEN <<"ERROR">>
    ELSE IF ~IsInt(qty) THEN <<"ERROR">>
    ELSE IF IntOf(qty) < 0 THEN <<"WARNING">>
    ELSE <<>>

\* add_item without the guard against negative quantities
AddItemMutantNoNegativeCheck(stock, item, qty) ==
    IF ~IsStr(item) \/ ~Truthy(item) THEN Outcome(stock, "none", PyNone, <<"ERROR">>)
    ELSE IF ~IsInt(qty) THEN Outcome(stock, "none", PyNone, <<"ERROR">>)
    ELSE IF stock.t # "dict" THEN Outcome(stock, "AttributeError", PyNone, <<>>)
    ELSE LET cur == DictGet(stock.d, item.s, PyInt(0)) IN
         IF ~IsNumber(cur) THEN Outcome(stock, "TypeError", PyNone, <<>>)
         ELSE Outcome(PyDict(DictSet(stock.d, item.s, PyInt(IntOf(cur) + IntOf(qty)))),
                      "none", PyNone, <<"INFO">>)

\* add_item storing qty instead of adding it to the quantity in stock
AddItemMutantOverwrite(stock, item, qty) ==
    IF Len(ValidationLog(item, qty)) > 0
    THEN Outcome(stock, "none", PyNone, ValidationLog(item, qty))
    ELSE IF stock.t # "dict" THEN Outcome(stock, "AttributeError", PyNone, <<>>)
    ELSE Outcome(PyDict(DictSet(stock.d, item.s, PyInt(IntOf(qty)))),
                 "none", PyNone, <<"INFO">>)

\* add_item(item, qty)
AddItem(stock, item, qty) ==
    IF ~IsStr(item) \/ ~Truthy(item) THEN Outcome(stock, "none", PyNone, <<"ERROR">>)
    ELSE IF ~IsInt(qty) THEN Outcome(stock, "none", PyNone, <<"ERROR">>)
    ELSE IF IntOf(qty) < 0 THEN Outcome(stock, "none", PyNone, <<"WARNING">>)
    \* stock_data.get on an object that is no dict
    ELSE IF stock.t # "dict" THEN Outcome(stock, "AttributeError", PyNone, <<>>)
    ELSE LET cur == DictGet(stock.d, item.s, PyInt(0)) IN
         \* cur + qty on a value that is no number
         IF ~IsNumber(cur) THEN Outcome(stock, "TypeError", PyNone, <<>>)
         ELSE Outcome(PyDict(DictSet(stock.d, item.s, PyInt(IntOf(cur) + IntOf(qty)))),
                      "none", PyNone, <<"INFO">>)

\* remove_item deleting the entry only below zero
RemoveItemMutantKeepZero(stock, item, qty) ==
    IF Len(ValidationLog(item, qty)) > 0
    THEN Outcome(stock, "none", PyNone, ValidationLog(item, qty))
    ELSE IF stock.t # "dict" THEN Outcome(stock, "TypeError", PyNone, <<>>)
    ELSE IF ~DictHas(stock.d, item.s) THEN Outcome(stock, "none", PyNone, <<"WARNING">>)
    ELSE LET cur == DictGet(stock.d, item.s, PyInt(0))
             new == IntOf(cur) - IntOf(qty)
         IN  IF ~IsNumber(cur) THEN Outcome(stock, "TypeError", PyNone, <<>>)
             ELSE IF new < 0
                  THEN Outcome(PyDict(DictDel(stock.d, item.s)), "none", PyNone,
                               <<"INFO", "INFO">>)
                  ELSE Outcome(PyDict(DictSet(stock.d, item.s, PyInt(new))), "none",
                               PyNone, <<"INFO">>)

\* remove_item reading an absent item as quantity 0 instead of raising KeyError
RemoveItemMutantCreateMissing(stock, item, qty) ==
    IF Len(ValidationLog(item, qty)) > 0
    THEN Outcome(stock, "none", PyNone, ValidationLog(item, qty))
    ELSE IF stock.t # "dict" THEN Outcome(stock, "TypeError", PyNone, <<>>)
    ELSE LET cur == DictGet(stock.d, item.s, PyInt(0))
             new == IntOf(cur) - IntOf(qty)
         IN  IF ~IsNumber(cur) THEN Outcome(stock, "TypeError", PyNone, <<>>)
             ELSE IF new <= 0 /\ DictHas(stock.d, item.s)
                  THEN Outcome(PyDict(DictDel(stock.d, item.s)), "none", PyNone,
                               <<"INFO", "INFO">>)
                  ELSE Outcome(PyDict(DictSet(stock.d, item.s, PyInt(new))), "none",
                               PyNone, <<"INFO">>)

\* remove_item(item, qty)
RemoveItem(stock, item, qty) ==
    IF ~IsStr(item) \/ ~Truthy(item) THEN Outcome(stock, "none", PyNone, <<"ERROR">>)
    ELSE IF ~IsInt(qty) THEN Outcome(stock, "none", PyNone, <<"ERROR">>)
    ELSE IF IntOf(qty) < 0 THEN Outcome(stock, "none", PyNone, <<"WARNING">>)
    \* stock_data[item] on an object that is no dict: TypeError, not KeyError
    ELSE IF stock.t # "dict" THEN Outcome(stock, "TypeError", PyNone, <<>>)
    \* KeyError, caught at line 96
    ELSE IF ~DictHas(stock.d, item.s) THEN Outcome(stock, "none", PyNone, <<"WARNING">>)
    ELSE LET cur == DictGet(stock.d, item.s, PyInt(0))
             new == IntOf(cur) - IntOf(qty)
         IN  \* cur - qty on a value that is no number
             IF ~IsNumber(cur) THEN Outcome(stock, "TypeError", PyNone, <<>>)
             ELSE IF new <= 0
                  THEN Outcome(PyDict(DictDel(stock.d, item.s)), "none", PyNone,
                               <<"INFO", "INFO">>)
                  ELSE Outcome(PyDict(DictSet(stock.d, item.s, PyInt(new))), "none",
                               PyNone, <<"INFO">>)

\* get_qty(item)
GetQty(stock, item) ==
    IF ~IsStr(item) THEN Outcome(stock, "none", PyInt(0), <<"ERROR">>)
    ELSE IF stock.t # "dict" THEN Outcome(stock, "AttributeError", PyNone, <<>>)
    ELSE Outcome(stock, "none", DictGet(stock.d, item.s, PyInt(0)), <<>>)

\* the loop of check_low_items over the first n entries: the list built so
\* far, or the exception the comparison raised
RECURSIVE LowLoop(_, _, _)
LowLoop(d, n, threshold) ==
    IF n = 0 THEN [exc |-> "none", result |-> <<>>]
    ELSE LET sofar == LowLoop(d, n - 1, threshold) IN
         IF sofar.exc # "none" THEN sofar
         ELSE IF ~IsNumber(d[n].v) THEN [exc |-> "TypeError", result |-> <<>>]
         ELSE IF IntOf(d[n].v) <= threshold
              THEN [exc |-> "none", result |-> Append(sofar.result, PyStr(d[n].k))]
              ELSE sofar

\* check_low_items comparing with < instead of <=
RECURSIVE LowLoopMutantStrict(_, _, _)
LowLoopMutantStrict(d, n, threshold) ==
    IF n = 0 THEN [exc |-> "none", result |-> <<>>]
    ELSE LET sofar == LowLoopMutantStrict(d, n - 1, threshold) IN
         IF IntOf(d[n].v) < threshold
         THEN [exc |-> "none", result |-> Append(sofar.result, PyStr(d[n].k))]
         ELSE sofar

CheckLowItemsMutantStrict(stock, threshold) ==
    Outcome(stock, "none", PyList(LowLoopMutantStrict(stock.d, Len(stock.d), threshold).result), <<>>)

\* check_low_items(threshold)
CheckLowItems(stock, threshold) ==
    IF stock.t # "dict" THEN Outcome(stock, "AttributeError", PyNone, <<>>)
    ELSE LET r == LowLoop(stock.d, Len(stock.d), threshold) IN
         IF r.exc # "none" THEN Outcome(stock, r.exc, PyNone, <<>>)
         ELSE Outcome(stock, "none", PyList(r.result), <<>>)

\* print_data(): the report is the "empty" notice or one line per entry;
\* the return value of the model is the number of entry lines printed
PrintData(stock) ==
    IF ~Truthy(stock) THEN Outcome(stock, "none", PyInt(0), <<>>)
    ELSE IF stock.t # "dict" THEN Outcome(stock, "AttributeError", PyNone, <<>>)
    ELSE Outcome(stock, "none", PyInt(Len(stock.d)), <<>>)

-----------------------------------------------------------------------------
(* json.dumps(obj, indent=4): the text, as a sequence of characters.       *)
(* Modelled for the objects json.loads produces, floats excepted.          *)

DigitChars == <<"0", "1", "2", "3", "4", "5", "6", "7", "8", "9">>

\* the decimal digits of a natural number, most significant first
RECURSIVE Digits(_)
Digits(n) ==
    IF n < 10 THEN <<DigitChars[n + 1]>>
    ELSE Digits(n \div 10) \o <<DigitChars[(n % 10) + 1]>>

DumpInt(n) == IF n < 0 THEN <<"-">> \o Digits(-n) ELSE Digits(n)

\* the characters of a string with quote and backslash escaped
RECURSIVE Escape(_)
Escape(s) ==
    IF s = <<>> THEN <<>>
    ELSE (IF Head(s) \in {"\"", "\\"} THEN <<"\\", Head(s)>> ELSE <<Head(s)>>)
         \o Escape(Tail(s))

\* a string written between quotes without escaping
DumpStrMutantNoEscape(s) == <<"\"">> \o s \o <<"\"">>

DumpStr(s) == <<"\"">> \o Escape(s) \o <<"\"">>

\* a newline and the indentation of a nesting level (4 spaces per level)
RECURSIVE Spaces(_)
Spaces(n) == IF n = 0 THEN <<>> ELSE <<" ">> \o Spaces(n - 1)

NewlineIndent(level) == <<"\n">> \o Spaces(4 * level)

RECURSIVE Dumps(_, _), DumpItems(_, _, _), DumpEntries(_, _, _)

\* the first n items of a list, each on its own line
DumpItems(l, n, level) ==
    IF n = 0 THEN <<>>
    ELSE DumpItems(l, n - 1, level)
         \o (IF n > 1 THEN <<",">> ELSE <<>>)
         \o NewlineIndent(level) \o Dumps(l[n], level)

\* the first n entries of a dict, each on its own line as "key": value
DumpEntries(d, n, level) ==
    IF n = 0 THEN <<>>
    ELSE DumpEntries(d, n - 1, level)
         \o (IF n > 1 THEN <<",">> ELSE <<>>)
         \o NewlineIndent(level) \o DumpStr(d[n].k) \o <<":", " ">>
         \o Dumps(d[n].v, level)

Dumps(x, level) ==
    CASE x.t = "int" -> DumpInt(x.i)
      [] x.t = "bool" -> IF x.b THEN <<"t", "r", "u", "e">>
                         ELSE <<"f", "a", "l", "s", "e">>
      [] x.t = "NoneType" -> <<"n", "u", "l", "l">>
      [] x.t = "str" -> DumpStr(x.s)
      [] x.t = "list" ->
            IF x.l = <<>> THEN <<"[", "]">>
            ELSE <<"[">> \o DumpItems(x.l, Len(x.l), level + 1)
                 \o NewlineIndent(level) \o <<"]">>
      [] x.t = "dict" ->
            IF x.d = <<>> THEN <<"{", "}">>
            ELSE <<"{">> \o DumpEntries(x.d, Len(x.d), level + 1)
                 \o NewlineIndent(level) \o <<"}">>

JsonDumps(x) == Dumps(x, 0)

-----------------------------------------------------------------------------
(* json.loads(text): the grammar of the JSON decoder without fractions,    *)
(* exponents, NaN/Infinity and the escapes other than \" \\ \/, none of    *)
(* which occurs in the files of the model.  A parse yields                 *)
(* [ok |-> TRUE, v |-> object, n |-> index after it] or [ok |-> FALSE].     *)

ParseFail == [ok |-> FALSE]
ParseOk(v, n) == [ok |-> TRUE, v |-> v, n |-> n]

Whitespace == {" ", "\t", "\n", "\r"}

RECURSIVE SkipWs(_, _)
SkipWs(s, i) == IF i <= Len(s) /\ s[i] \in Whitespace THEN SkipWs(s, i + 1) ELSE i

\* the text has character c at index i
At(s, i, c) == i <= Len(s) /\ s[i] = c

\* the body of a string from index i on, acc the characters read so far
RECURSIVE ScanString(_, _, _)
ScanString(s, i, acc) ==
    IF i > Len(s) THEN ParseFail
    ELSE IF s[i] = "\"" THEN ParseOk(PyStr(acc), i + 1)
    ELSE IF s[i] = "\\"
         THEN IF i + 1 <= Len(s) /\ s[i + 1] \in {"\"", "\\", "/"}
              THEN ScanString(s, i + 2, Append(acc, s[i + 1]))
              ELSE ParseFail
    ELSE IF s[i] \in {"\t", "\n", "\r"} THEN ParseFail
    ELSE ScanString(s, i + 1, Append(acc, s[i]))

IsDigit(c) == \E k \in 1..10 : DigitChars[k] = c

DigitValue(c) == (CHOOSE k \in 1..10 : DigitChars[k] = c) - 1

\* the digits from index i on: the value read so far and the index after
RECURSIVE ScanDigits(_, _, _)
ScanDigits(s, i, acc) ==
    IF i <= Len(s) /\ IsDigit(s[i])
    THEN ScanDigits(s, i + 1, 10 * acc + DigitValue(s[i]))
    ELSE [v |-> acc, n |-> i]

\* -?(0|[1-9][0-9]*)
ParseNumber(s, i) ==
    LET neg == At(s, i, "-")
        j == IF neg THEN i + 1 ELSE i
    IN  IF j > Len(s) \/ ~IsDigit(s[j]) THEN ParseFail
        ELSE IF s[j] = "0" THEN ParseOk(PyInt(0), j + 1)
        ELSE LET r == ScanDigits(s, j, 0) IN
             ParseOk(PyInt(IF neg THEN 0 - r.v ELSE r.v), r.n)

\* the text holds the characters of word from index i on
HasWord(s, i, word) ==
    /\ i + Len(word) - 1 <= Len(s)
    /\ \A k \in 1..Len(word) : s[i + k - 1] = word[k]

RECURSIVE ParseValue(_, _), ObjectLoop(_, _, _), ArrayLoop(_, _, _)

\* the entries of an object, i at the quote that opens the next key
ObjectLoop(s, i, acc) ==
    IF ~At(s, i, "\"") THEN ParseFail
    ELSE LET key == ScanString(s, i + 1, <<>>) IN
         IF ~key.ok THEN ParseFail
         ELSE LET colon == SkipWs(s, key.n) IN
              IF ~At(s, colon, ":") THEN ParseFail
              ELSE LET val == ParseValue(s, SkipWs(s, colon + 1)) IN
                   IF ~val.ok THEN ParseFail
                   ELSE LET entries == DictSet(acc, key.v.s, val.v)
                            next == SkipWs(s, val.n)
                        IN  IF At(s, next, "}") THEN ParseOk(PyDict(entries), next + 1)
                            ELSE IF At(s, next, ",")
                                 THEN ObjectLoop(s, SkipWs(s, next + 1), entries)
                            ELSE ParseFail

\* the items of an array, i at the start of the next item
ArrayLoop(s, i, acc) ==
    LET val == ParseValue(s, i) IN
    IF ~val.ok THEN ParseFail
    ELSE LET items == Append(acc, val.v)
             next == SkipWs(s, val.n)
         IN  IF At(s, next, "]") THEN ParseOk(PyList(items), next + 1)
             ELSE IF At(s, next, ",") THEN ArrayLoop(s, SkipWs(s, next + 1), items)
             ELSE ParseFail

ParseValue(s, i) ==
    IF i > Len(s) THEN ParseFail
    ELSE IF s[i] = "\"" THEN ScanString(s, i + 1, <<>>)
    ELSE IF s[i] = "{"
         THEN LET j == SkipWs(s, i + 1) IN
              IF At(s, j, "}") THEN ParseOk(PyDict(<<>>), j + 1)
              ELSE ObjectLoop(s, j, <<>>)
    ELSE IF s[i] = "["
         THEN LET j == SkipWs(s, i + 1) IN
              IF At(s, j, "]") THEN ParseOk(PyList(<<>>), j + 1)
              ELSE ArrayLoop(s, j, <<>>)
    ELSE IF HasWord(s, i, <<"n", "u", "l", "l">>) THEN ParseOk(PyNone, i + 4)
    ELSE IF HasWord(s, i, <<"t", "r", "u", "e">>) THEN ParseOk(PyBool(TRUE), i + 4)
    ELSE IF HasWord(s, i, <<"f", "a", "l", "s", "e">>) THEN ParseOk(PyBool(FALSE), i + 5)
    ELSE ParseNumber(s, i)

\* json.loads: one value, whitespace around it, nothing after it
JsonLoads(s) ==
    LET r == ParseValue(s, SkipWs(s, 1)) IN
    IF ~r.ok THEN ParseFail
    ELSE IF SkipWs(s, r.n) <= Len(s) THEN ParseFail
    ELSE r

-----------------------------------------------------------------------------
(* The persisted file and the two persistence functions.  The file is      *)
(* absent, or holds a sequence of characters; BadByte stands for a byte    *)
(* sequence that is not valid UTF-8.                                       *)

NoFile == [kind |-> "absent"]
FileOf(data) == [kind |-> "file", data |-> data]

BadByte == "0xFF"

\* the classes an exception is an instance of
Ancestors(exc) ==
    CASE exc = "FileNotFoundError" -> {"FileNotFoundError", "OSError", "Exception"}
      [] exc = "PermissionError" -> {"PermissionError", "OSError", "Exception"}
      [] exc = "OSError" -> {"OSError", "Exception"}
      [] exc = "JSONDecodeError" -> {"JSONDecodeError", "ValueError", "Exception"}
      [] exc = "UnicodeDecodeError" ->
            {"UnicodeDecodeError", "UnicodeError", "ValueError", "Exception"}
      [] OTHER -> {exc, "Exception"}

\* an except clause naming `classes` catches exc (IOError is OSError)
Catches(classes, exc) == Ancestors(exc) \cap classes # {}

\* what the environment does to a load: nothing, refuse the open, fail the read
LoadEnv == {"ok", "PermissionError", "OSError"}

\* the exception raised inside the try block of load_data, "none" if none
LoadRaised(f, env) ==
    IF f.kind = "absent" THEN "FileNotFoundError"
    ELSE IF env # "ok" THEN env
    \* f.read() decodes the bytes as UTF-8
    ELSE IF \E n \in 1..Len(f.data) : f.data[n] = BadByte THEN "UnicodeDecodeError"
    ELSE IF ~JsonLoads(f.data).ok THEN "JSONDecodeError"
    ELSE "none"

\* load_data(file): the returned object, or the exception that escapes
LoadData(f, env) ==
    LET e == LoadRaised(f, env) IN
    IF e = "none"
    THEN [exc |-> "none", ret |-> JsonLoads(f.data).v, log |-> <<"INFO">>]
    ELSE IF Catches({"FileNotFoundError"}, e)
    THEN [exc |-> "none", ret |-> PyDict(<<>>), log |-> <<"WARNING">>]
    ELSE IF Catches({"JSONDecodeError"}, e)
    THEN [exc |-> "none", ret |-> PyDict(<<>>), log |-> <<"ERROR">>]
    ELSE IF Catches({"OSError"}, e)
    THEN [exc |-> "none", ret |-> PyDict(<<>>), log |-> <<"ERROR">>]
    ELSE [exc |-> e, ret |-> PyNone, log |-> <<>>]

\* the lengths at which a write of `text` can stop short: the file grows by
\* whole blocks of BlockSize characters
Blocks(text) == {k \in 0..(Len(text) - 1) : k % BlockSize = 0}

\* what the environment does to a save of `text`: nothing; refuse the open;
\* fail f.write after `written` characters reached the file; fail the flush
\* on leaving the with block after `written` characters reached the file
SaveEnv(text) ==
    {[kind |-> "ok", written |-> Len(text)],
     [kind |-> "open_fails", written |-> 0]}
    \cup {[kind |-> "write_fails", written |-> k] : k \in Blocks(text)}
    \cup {[kind |-> "close_fails", written |-> k] : k \in Blocks(text) \cup {Len(text)}}

\* save_data(file): the file afterwards, the exception that escapes and the
\* log.  open(file, "w") truncates the file before anything is written.
SaveData(stock, f, env) ==
    LET text == JsonDumps(stock) IN
    CASE env.kind = "open_fails" ->
            [file |-> f, exc |-> "none", log |-> <<"ERROR">>]
      [] env.kind = "write_fails" ->
            [file |-> FileOf(SubSeq(text, 1, env.written)),
             exc |-> "none", log |-> <<"ERROR">>]
      [] env.kind = "close_fails" ->
            [file |-> FileOf(SubSeq(text, 1, env.written)),
             exc |-> "none", log |-> <<"INFO", "ERROR">>]
      [] OTHER ->
            [file |-> FileOf(text), exc |-> "none", log |-> <<"INFO">>]

-----------------------------------------------------------------------------
(* The store operations as calls on the module's table.  pc = "api" is the *)
(* module imported and its functions called from outside; `call` records   *)
(* the last call and its outcome, `pre` the table it found.                *)

\* arguments the calls are tried with: valid names, the empty name, a
\* name that is no text
ItemArgs == {PyStr(apple), PyStr(banana), PyStr(<<>>), PyInt(123)}

\* integers (negative, zero, positive), True, a text and a float
QtyArgs == {PyInt(n) : n \in -1..MaxQty} \cup {PyBool(TRUE), PyStr(ten), PyFloat}

ThresholdArgs == -2..(MaxQty + 1)

\* every entry of the table within the model's bound
WithinBound(stock) ==
    stock.t = "dict" => \A n \in 1..Len(stock.d) :
        IsNumber(stock.d[n].v) => IntOf(stock.d[n].v) <= MaxQty

NoCall == [op |-> "none", exc |-> "none", ret |-> PyNone, log |-> <<>>]

add_item ==
    /\ pc = "api"
    /\ \E item \in ItemArgs, qty \in QtyArgs :
         LET o == AddItem(stock_data, item, qty) IN
         /\ WithinBound(o.stock)
         /\ stock_data' = o.stock
         /\ call' = [op |-> "add_item", item |-> item, qty |-> qty,
                     exc |-> o.exc, ret |-> o.ret, log |-> o.log]
    /\ pre' = stock_data
    /\ UNCHANGED <<file, pc>>

remove_item ==
    /\ pc = "api"
    /\ \E item \in ItemArgs, qty \in QtyArgs :
         LET o == RemoveItem(stock_data, item, qty) IN
         /\ stock_data' = o.stock
         /\ call' = [op |-> "remove_item", item |-> item, qty |-> qty,
                     exc |-> o.exc, ret |-> o.ret, log |-> o.log]
    /\ pre' = stock_data
    /\ UNCHANGED <<file, pc>>

get_qty ==
    /\ pc = "api"
    /\ \E item \in ItemArgs :
         LET o == GetQty(stock_data, item) IN
         /\ stock_data' = o.stock
         /\ call' = [op |-> "get_qty", item |-> item,
                     exc |-> o.exc, ret |-> o.ret, log |-> o.log]
    /\ pre' = stock_data
    /\ UNCHANGED <<file, pc>>

check_low_items ==
    /\ pc = "api"
    /\ \E threshold \in ThresholdArgs :
         LET o == CheckLowItems(stock_data, threshold) IN
         /\ stock_data' = o.stock
         /\ call' = [op |-> "check_low_items", threshold |-> threshold,
                     exc |-> o.exc, ret |-> o.ret, log |-> o.log]
    /\ pre' = stock_data
    /\ UNCHANGED <<file, pc>>

print_data ==
    /\ pc = "api"
    /\ LET o == PrintData(stock_data) IN
         /\ stock_data' = o.stock
         /\ call' = [op |-> "print_data",
                     exc |-> o.exc, ret |-> o.ret, log |-> o.log]
    /\ pre' = stock_data
    /\ UNCHANGED <<file, pc>>

\* the module after import: stock_data = {}
Init ==
    /\ stock_data = PyDict(<<>>)
    /\ file = NoFile
    /\ call = NoCall
    /\ pre = PyDict(<<>>)
    /\ pc = "api"

Next == add_item \/ remove_item \/ get_qty \/ check_low_items \/ print_data

Spec == Init /\ [][Next]_vars

-----------------------------------------------------------------------------
(* The persistence functions as calls, under SpecPersist: a table the      *)
(* store operations can build and a file in one of its initial states.     *)

load_data ==
    /\ pc = "api"
    /\ \E env \in LoadEnv :
         LET o == LoadData(file, env) IN
         call' = [op |-> "load_data", env |-> env,
                  exc |-> o.exc, ret |-> o.ret, log |-> o.log]
    /\ pre' = stock_data
    /\ UNCHANGED <<stock_data, file, pc>>

save_data ==
    /\ pc = "api"
    /\ \E env \in SaveEnv(JsonDumps(stock_data)) :
         LET o == SaveData(stock_data, file, env) IN
         /\ file' = o.file
         /\ call' = [op |-> "save_data", env |-> env.kind, old |-> file,
                     exc |-> o.exc, ret |-> PyNone, log |-> o.log]
    /\ pre' = stock_data
    /\ UNCHANGED <<stock_data, pc>>

Quoted(k) == <<"\"">> \o k \o <<"\"">>

\* the text {"k": value}
ObjectText(k, value) == <<"{">> \o Quoted(k) \o <<":", " ">> \o value \o <<"}">>

\* the persisted file before a run: absent, empty, invalid UTF-8, invalid
\* JSON, JSON that is no object, objects with and without positive integers
InitialFiles ==
    {NoFile, FileOf(<<>>), FileOf(<<BadByte>>),
     FileOf(<<"{">>), FileOf(<<"{">> \o Quoted(apple) \o <<":", " ", "1", ",", "}">>),
     FileOf(<<"[", "]">>), FileOf(<<"7">>), FileOf(<<"n", "u", "l", "l">>),
     FileOf(Quoted(apple)),
     FileOf(<<"{", "}">>),
     FileOf(ObjectText(apple, <<"5">>)),
     FileOf(ObjectText(orange, <<"4">>) \o <<"\n">>),
     FileOf(ObjectText(banana, <<"1", "2">>)),
     FileOf(ObjectText(apple, <<"0">>)),
     FileOf(ObjectText(apple, <<"-", "2", "0">>)),
     FileOf(ObjectText(apple, <<"t", "r", "u", "e">>)),
     FileOf(ObjectText(apple, Quoted(<<"x">>))),
     FileOf(ObjectText(orange, Quoted(<<"x">>))),
     FileOf(ObjectText(pear, <<"n", "u", "l", "l">>)),
     FileOf(ObjectText(pear, <<"[", "1", "]">>))}

\* a name with the two characters json.dumps escapes
quoted_name == <<"a", "\"", "\\">>

PersistKeys == {apple, quoted_name}

PersistQtys == {0, 7, 40, 305}

\* the tables over PersistKeys and PersistQtys, in either insertion order
PersistTables ==
    {PyDict(<<>>)}
    \cup {PyDict(<<[k |-> k1, v |-> PyInt(q1)]>>) : k1 \in PersistKeys, q1 \in PersistQtys}
    \cup {PyDict(<<[k |-> e[1], v |-> PyInt(e[2])], [k |-> e[3], v |-> PyInt(e[4])]>>) :
            e \in {x \in PersistKeys \X PersistQtys \X PersistKeys \X PersistQtys :
                     x[1] # x[3]}}

InitPersist ==
    /\ stock_data \in PersistTables
    /\ file \in InitialFiles
    /\ call = NoCall
    /\ pre = stock_data
    /\ pc = "api"

NextPersist == load_data \/ save_data

SpecPersist == InitPersist /\ [][NextPersist]_vars

-----------------------------------------------------------------------------
(* main(): one action per statement, pc the line of the next statement.    *)
(* An exception that escapes a statement ends the run: pc = "crashed".     *)

\* the default threshold of check_low_items
DefaultThreshold == 5

\* the rest of a statement of main that calls a store function: its effect
\* on the table, and where the run goes
MainCall(next, o, record) ==
    /\ stock_data' = o.stock
    /\ call' = record
    /\ pre' = stock_data
    /\ pc' = IF o.exc = "none" THEN next ELSE "crashed"
    /\ UNCHANGED file

MainAdd(next, item, qty) ==
    LET o == AddItem(stock_data, item, qty) IN
    MainCall(next, o, [op |-> "add_item", item |-> item, qty |-> qty,
                       exc |-> o.exc, ret |-> o.ret, log |-> o.log])

MainRemove(next, item, qty) ==
    LET o == RemoveItem(stock_data, item, qty) IN
    MainCall(next, o, [op |-> "remove_item", item |-> item, qty |-> qty,
                       exc |-> o.exc, ret |-> o.ret, log |-> o.log])

MainGet(next, item) ==
    LET o == GetQty(stock_data, item) IN
    MainCall(next, o, [op |-> "get_qty", item |-> item,
                       exc |-> o.exc, ret |-> o.ret, log |-> o.log])

\* stock_data = load_data()
main_load ==
    /\ pc = "L201"
    /\ \E env \in LoadEnv :
         LET o == LoadData(file, env) IN
         /\ call' = [op |-> "load_data", env |-> env,
                     exc |-> o.exc, ret |-> o.ret, log |-> o.log]
         /\ stock_data' = IF o.exc = "none" THEN o.ret ELSE stock_data
         /\ pc' = IF o.exc = "none" THEN "L204" ELSE "crashed"
    /\ pre' = stock_data
    /\ UNCHANGED file

main_add_apple ==
    /\ pc = "L204"
    /\ MainAdd("L205", PyStr(apple), PyInt(10))

main_add_banana ==
    /\ pc = "L205"
    /\ MainAdd("L208", PyStr(banana), PyInt(8))

main_add_123 ==
    /\ pc = "L208"
    /\ MainAdd("L209", PyInt(123), PyStr(ten))

main_add_pear ==
    /\ pc = "L209"
    /\ MainAdd("L211", PyStr(pear), PyInt(-2))

main_remove_apple ==
    /\ pc = "L211"
    /\ MainRemove("L212", PyStr(apple), PyInt(3))

main_remove_orange ==
    /\ pc = "L212"
    /\ MainRemove("L213", PyStr(orange), PyInt(1))

main_remove_banana ==
    /\ pc = "L213"
    /\ MainRemove("L215", PyStr(banana), PyInt(-1))

main_get_apple ==
    /\ pc = "L215"
    /\ MainGet("L216", PyStr(apple))

main_get_orange ==
    /\ pc = "L216"
    /\ MainGet("L219", PyStr(orange))

main_check_low_items ==
    /\ pc = "L219"
    /\ LET o == CheckLowItems(stock_data, DefaultThreshold) IN
       MainCall("L221", o,
                [op |-> "check_low_items", threshold |-> DefaultThreshold,
                 exc |-> o.exc, ret |-> o.ret, log |-> o.log])

main_print_data ==
    /\ pc = "L221"
    /\ LET o == PrintData(stock_data) IN
       MainCall("L222", o,
                [op |-> "print_data", exc |-> o.exc, ret |-> o.ret, log |-> o.log])

main_save ==
    /\ pc = "L222"
    /\ \E env \in SaveEnv(JsonDumps(stock_data)) :
         LET o == SaveData(stock_data, file, env) IN
         /\ file' = o.file
         /\ call' = [op |-> "save_data", env |-> env.kind, old |-> file,
                     exc |-> o.exc, ret |-> PyNone, log |-> o.log]
         /\ pc' = IF o.exc = "none" THEN "done" ELSE "crashed"
    /\ pre' = stock_data
    /\ UNCHANGED stock_data

InitMain ==
    /\ stock_data = PyDict(<<>>)
    /\ file \in InitialFiles
    /\ call = NoCall
    /\ pre = PyDict(<<>>)
    /\ pc = "L201"

NextMain ==
    \/ main_load
    \/ main_add_apple \/ main_add_banana \/ main_add_123 \/ main_add_pear
    \/ main_remove_apple \/ main_remove_orange \/ main_remove_banana
    \/ main_get_apple \/ main_get_orange
    \/ main_check_low_items \/ main_print_data \/ main_save

SpecMain == InitMain /\ [][NextMain]_vars

-----------------------------------------------------------------------------
(* Properties of the store operations, under Spec *)

\* the call passes the guard clauses of add_item / remove_item: the item is
\* a non-empty text and the quantity an integer >= 0
Accepted(c) ==
    /\ c.item.t = "str" /\ c.item.s # <<>>
    /\ c.qty.t \in {"int", "bool"} /\ IntOf(c.qty) >= 0

\* the quantity the table holds for a name, 0 when it holds none
QuantityIn(stock, name) == IntOf(DictGet(stock.d, name, PyInt(0)))

\* C1: every entry present in the table has a quantity that is an integer
\* >= 1, in every state reached from the empty table by add and remove
C1_EntriesPositive ==
    /\ stock_data.t = "dict"
    /\ \A n \in 1..Len(stock_data.d) :
         stock_data.d[n].v.t = "int" /\ stock_data.d[n].v.i >= 1

\* C2: after an accepted add(item, qty), get_quantity(item) returns what it
\* returned before the add plus qty
C2_AddThenGet ==
    (call.op = "add_item" /\ Accepted(call)) =>
        /\ call.exc = "none"
        /\ GetQty(stock_data, call.item).exc = "none"
        /\ GetQty(stock_data, call.item).ret =
             PyInt(IntOf(GetQty(pre, call.item).ret) + IntOf(call.qty))

\* an add of a positive quantity to an item already in stock has happened
C2_Witness ==
    /\ call.op = "add_item" /\ Accepted(call)
    /\ IntOf(call.qty) >= 1
    /\ DictHas(pre.d, call.item.s)
    /\ QuantityIn(stock_data, call.item.s) >= 2

\* C3: an accepted remove(item, qty) of an item present with quantity c
\* deletes the entry when qty >= c (get_quantity then returns 0) and leaves
\* it with quantity c - qty when qty < c
C3_RemovePresent ==
    (call.op = "remove_item" /\ Accepted(call) /\ DictHas(pre.d, call.item.s)) =>
        LET c == QuantityIn(pre, call.item.s)
            qty == IntOf(call.qty)
        IN  IF qty >= c
            THEN /\ ~DictHas(stock_data.d, call.item.s)
                 /\ GetQty(stock_data, call.item).ret = PyInt(0)
            ELSE /\ DictHas(stock_data.d, call.item.s)
                 /\ DictGet(stock_data.d, call.item.s, PyNone) = PyInt(c - qty)

\* a remove of exactly the quantity in stock has deleted the entry, another
\* entry staying
C3_Witness ==
    /\ call.op = "remove_item" /\ Accepted(call)
    /\ DictHas(pre.d, call.item.s)
    /\ IntOf(call.qty) = QuantityIn(pre, call.item.s)
    /\ IntOf(call.qty) >= 1
    /\ ~DictHas(stock_data.d, call.item.s)
    /\ Len(stock_data.d) = 1

\* C4: an accepted remove of an item that is not in the table leaves the
\* whole table unchanged and raises nothing
C4_RemoveAbsent ==
    (call.op = "remove_item" /\ Accepted(call) /\ ~DictHas(pre.d, call.item.s)) =>
        /\ stock_data = pre
        /\ call.exc = "none"

\* a remove of a positive quantity of an absent item, the table holding
\* another item
C4_Witness ==
    /\ call.op = "remove_item" /\ Accepted(call)
    /\ ~DictHas(pre.d, call.item.s)
    /\ IntOf(call.qty) >= 1
    /\ Len(pre.d) = 1
    /\ call.log = <<"WARNING">>

\* C5: an add or remove call that fails validation leaves the table as it
\* was and raises nothing
C5_RejectedIsNoOp ==
    (call.op \in {"add_item", "remove_item"} /\ ~Accepted(call)) =>
        /\ stock_data = pre
        /\ call.exc = "none"

\* a negative quantity of an item in stock has been rejected
C5_Witness ==
    /\ call.op \in {"add_item", "remove_item"}
    /\ call.item.t = "str" /\ call.qty.t = "int" /\ call.qty.i < 0
    /\ DictHas(pre.d, call.item.s)
    /\ call.log = <<"WARNING">>

\* C6: check_low_items(threshold) returns exactly the items whose quantity
\* is <= threshold, in table iteration order, without mutating the table;
\* for a negative threshold the result is empty
C6_LowStock ==
    (call.op = "check_low_items") =>
        /\ call.exc = "none"
        /\ stock_data = pre
        /\ call.ret.t = "list"
        /\ LET r == call.ret.l
               d == pre.d
           IN  /\ \A n \in 1..Len(d) :
                    (IntOf(d[n].v) <= call.threshold)
                        <=> (\E m \in 1..Len(r) : r[m] = PyStr(d[n].k))
               /\ \A m \in 1..Len(r) : r[m].t = "str" /\ DictHas(d, r[m].s)
               /\ \A m1, m2 \in 1..Len(r) :
                    m1 < m2 => DictIdx(d, r[m1].s) < DictIdx(d, r[m2].s)
               /\ call.threshold < 0 => r = <<>>

\* a listing that keeps one of two items, the one at the threshold
C6_Witness ==
    /\ call.op = "check_low_items"
    /\ Len(pre.d) = 2
    /\ Len(call.ret.l) = 1
    /\ QuantityIn(pre, call.ret.l[1].s) = call.threshold

-----------------------------------------------------------------------------
(* Properties of the persistence functions, under SpecPersist *)

\* every value of the table is an integer >= 1
AllPositive(stock) ==
    \A n \in 1..Len(stock.d) : stock.d[n].v.t = "int" /\ stock.d[n].v.i >= 1

\* the bytes of the file are valid UTF-8
ValidUtf8(data) == \A n \in 1..Len(data) : data[n] # BadByte

\* C7: for a table whose values are all positive integers, a save that
\* succeeds followed by a load of the same file that the environment does
\* not fail returns a table identical to the one saved
C7_RoundTrip ==
    [][(/\ call.op = "save_data" /\ call.env = "ok"
        /\ AllPositive(stock_data)
        /\ call'.op = "load_data" /\ call'.env = "ok")
       => (call'.exc = "none" /\ call'.ret = stock_data)]_vars

\* a load has returned the two-entry table that the file holds the
\* serialization of, one of its names needing escapes and one of its
\* quantities several digits
C7_Witness ==
    /\ call.op = "load_data" /\ call.env = "ok"
    /\ Len(stock_data.d) = 2 /\ AllPositive(stock_data)
    /\ DictHas(stock_data.d, quoted_name)
    /\ \E n \in 1..2 : stock_data.d[n].v.i >= 10
    /\ file = FileOf(JsonDumps(stock_data))
    /\ call.ret = stock_data

\* C8: load yields an empty table and lets no exception escape when the
\* file is missing, when the environment fails the open or the read, and
\* when the content fails to decode (as UTF-8 or as JSON)
C8_LoadFailsSafe ==
    (/\ call.op = "load_data"
     /\ \/ file.kind = "absent"
        \/ call.env # "ok"
        \/ ~ValidUtf8(file.data)
        \/ ~JsonLoads(file.data).ok)
    => (call.exc = "none" /\ call.ret = PyDict(<<>>))

\* C10: after a save, failed or not, the file holds the complete previous
\* content or the complete serialization of the table, and nothing is raised
C10_SaveAllOrNothing ==
    (call.op = "save_data") =>
        /\ file = call.old \/ file = FileOf(JsonDumps(stock_data))
        /\ call.exc = "none"

-----------------------------------------------------------------------------
(* Properties of the reference run, under SpecMain *)

\* C9: whatever the persisted file is before the run (absent, unreadable,
\* or a text that is invalid JSON, JSON that is no object, or an object
\* whose values are not positive integers), no statement of main raises an
\* error that ends the run
C9_RunCompletes ==
    (file.kind = "absent" \/ ValidUtf8(file.data)) => pc # "crashed"

====
